---- MODULE Spec2Model ----
(***************************************************************************)
(* A model of databases_companion/decorators.py.                           *)
(*                                                                         *)
(* Spec          : DatabaseDecorators - concurrent callers of the wrappers *)
(*                 made by session_handler_add_delete_update and           *)
(*                 session_handler_query, one step per statement that      *)
(*                 touches the session.                                    *)
(* ValidatorSpec : DTypeValidator - one call of a validator wrapper, from  *)
(*                 argument binding to the return.                         *)
(***************************************************************************)
EXTENDS Naturals, Sequences, FiniteSets, TLC

VARIABLES
    \* ---- DatabaseDecorators ----
    SessionLocal,    \* self.SessionLocal: the session made at construction
    factoryCalls,    \* how many times the session factory has been called
    sessionClosed,   \* session -> close() has returned normally on it
    pc,              \* caller -> position inside the wrapper
    variant,         \* caller -> which decorator made the wrapper it calls
    kwargs,          \* caller -> kwargs.get('db') as the caller supplied it
    db,              \* caller -> the wrapper's local db
    trace,           \* caller -> what the current call did, in order
    result,          \* caller -> the wrapper's local result
    pending,         \* caller -> the return/raise the finally block suspends
    outcome,         \* caller -> how the call ended
    calls,           \* caller -> number of calls ended
    disturbed,       \* caller -> another call rolled back or closed db
                     \*           between this call's func and its commit
    finishedOmitted, \* a call that omitted db has ended, its close done
    earlierFinished, \* caller -> finishedOmitted when its call began
    \* ---- DTypeValidator ----
    validator,       \* which validate_* made the wrapper
    param_names,     \* the names the validator was configured with
    sig,             \* inspect.signature(func)
    call,            \* the wrapper's *args and **kwargs
    vpc,             \* position inside the wrapper
    arguments,       \* sig.bind_partial( *args, **kwargs).arguments
    extracted,       \* what _extract_bound_args returned
    bound_args,      \* the wrapper's local bound_args
    idx,             \* position of the for loop in param_names
    targetCalls,     \* the calls of func made so far, with their arguments
    targetResult,    \* what func returned
    vreturn          \* how the wrapper ended

sessVars == <<SessionLocal, factoryCalls, sessionClosed, pc, variant, kwargs,
              db, trace, result, pending, outcome, calls, disturbed,
              finishedOmitted, earlierFinished>>

valVars == <<validator, param_names, sig, call, vpc, arguments, extracted,
             bound_args, idx, targetCalls, targetResult, vreturn>>

vars == <<sessVars, valVars>>

(***************************************************************************)
(* Bounds.                                                                 *)
(***************************************************************************)
MaxCalls == 2

MaxParams == 2

Callers == {"c1", "c2"}

(***************************************************************************)
(* Values.                                                                 *)
(***************************************************************************)
DefaultSession == "default"        \* what SessionLocal() produced
SuppliedSessions == {"own"}        \* sessions callers make themselves
Sessions == {DefaultSession} \cup SuppliedSessions

Absent == "absent"                 \* no 'db' key in kwargs
NoneValue == "None"                \* db=None passed explicitly
KwargsDb == {Absent, NoneValue} \cup SuppliedSessions

FuncResults == {"r1", "r2"}        \* what the wrapped function may return
NoResult == "unset"

\* {"message": "An unexpected error occurred. Please try again later."}
ErrorPayload == "An unexpected error occurred. Please try again later."

Return(v) == [how |-> "return", value |-> v]
Raise == [how |-> "raise", value |-> "exception"]
NoOutcome == [how |-> "none", value |-> "none"]

Ev(op, res) == [op |-> op, res |-> res]

\* kwargs.get('db') or self.SessionLocal
ResolveDb(kw, local) == IF kw \in {Absent, NoneValue} THEN local ELSE kw

\* func( *args, db=db, **kwargs): a 'db' key in kwargs repeats the keyword
\* and the call expression raises TypeError before func is entered.
DuplicateKeyword(kw) == kw # Absent

InitSessions ==
    /\ SessionLocal = DefaultSession
    /\ factoryCalls = 1
    /\ sessionClosed = [s \in Sessions |-> FALSE]
    /\ pc = [p \in Callers |-> "idle"]
    /\ variant = [p \in Callers |-> "add_delete_update"]
    /\ kwargs = [p \in Callers |-> Absent]
    /\ db = [p \in Callers |-> DefaultSession]
    /\ trace = [p \in Callers |-> <<>>]
    /\ result = [p \in Callers |-> NoResult]
    /\ pending = [p \in Callers |-> NoOutcome]
    /\ outcome = [p \in Callers |-> NoOutcome]
    /\ calls = [p \in Callers |-> 0]
    /\ disturbed = [p \in Callers |-> FALSE]
    /\ finishedOmitted = FALSE
    /\ earlierFinished = [p \in Callers |-> FALSE]

\* A wrapper that asks the factory for a session on every call.
CallFresh(p) ==
    /\ pc[p] = "idle"
    /\ calls[p] < MaxCalls
    /\ \E v \in {"add_delete_update", "query"}, kw \in KwargsDb :
          /\ variant' = [variant EXCEPT ![p] = v]
          /\ kwargs' = [kwargs EXCEPT ![p] = kw]
          /\ db' = [db EXCEPT ![p] = ResolveDb(kw, "fresh")]
    /\ factoryCalls' = factoryCalls + 1
    /\ pc' = [pc EXCEPT ![p] = "try"]
    /\ earlierFinished' = [earlierFinished EXCEPT ![p] = finishedOmitted]
    /\ UNCHANGED <<SessionLocal, sessionClosed, trace, result,
                   pending, outcome, calls, disturbed, finishedOmitted>>
    /\ UNCHANGED valVars

\* wrapper( *args, **kwargs) is entered and db is bound.
Call(p) ==
    /\ pc[p] = "idle"
    /\ calls[p] < MaxCalls
    /\ \E v \in {"add_delete_update", "query"}, kw \in KwargsDb :
          /\ variant' = [variant EXCEPT ![p] = v]
          /\ kwargs' = [kwargs EXCEPT ![p] = kw]
          /\ db' = [db EXCEPT ![p] = ResolveDb(kw, SessionLocal)]
    /\ pc' = [pc EXCEPT ![p] = "try"]
    /\ earlierFinished' = [earlierFinished EXCEPT ![p] = finishedOmitted]
    /\ UNCHANGED <<SessionLocal, factoryCalls, sessionClosed, trace, result,
                   pending, outcome, calls, disturbed, finishedOmitted>>
    /\ UNCHANGED valVars

\* result = func( *args, db=db, **kwargs)
InvokeFunc(p) ==
    /\ pc[p] = "try"
    /\ \/ /\ DuplicateKeyword(kwargs[p])
          /\ pc' = [pc EXCEPT ![p] = "except"]
          /\ UNCHANGED <<trace, result, pending>>
       \/ /\ ~DuplicateKeyword(kwargs[p])
          /\ \E r \in FuncResults :
                /\ trace' = [trace EXCEPT ![p] = Append(@, Ev("func", "ok"))]
                /\ result' = [result EXCEPT ![p] = r]
                /\ IF variant[p] = "add_delete_update"
                     THEN /\ pc' = [pc EXCEPT ![p] = "commit"]
                          /\ UNCHANGED pending
                     ELSE /\ pc' = [pc EXCEPT ![p] = "finally"]
                          /\ pending' = [pending EXCEPT ![p] = Return(r)]
       \/ /\ ~DuplicateKeyword(kwargs[p])
          /\ trace' = [trace EXCEPT ![p] = Append(@, Ev("func", "raise"))]
          /\ pc' = [pc EXCEPT ![p] = "except"]
          /\ UNCHANGED <<result, pending>>
    /\ UNCHANGED <<SessionLocal, factoryCalls, sessionClosed, variant, kwargs,
                   db, outcome, calls, disturbed, finishedOmitted,
                   earlierFinished>>
    /\ UNCHANGED valVars

\* When p omitted db: the other callers that omitted it too, have run func on
\* the same session and have not yet committed.
BetweenFuncAndCommit(p) ==
    IF kwargs[p] = Absent
      THEN {q \in Callers \ {p} :
              pc[q] = "commit" /\ kwargs[q] = Absent /\ db[q] = db[p]}
      ELSE {}

\* db.commit(); return result
Commit(p) ==
    /\ pc[p] = "commit"
    /\ \/ /\ trace' = [trace EXCEPT ![p] = Append(@, Ev("commit", "ok"))]
          /\ pending' = [pending EXCEPT ![p] = Return(result[p])]
          /\ pc' = [pc EXCEPT ![p] = "finally"]
       \/ /\ trace' = [trace EXCEPT ![p] = Append(@, Ev("commit", "raise"))]
          /\ pc' = [pc EXCEPT ![p] = "except"]
          /\ UNCHANGED pending
    /\ UNCHANGED <<SessionLocal, factoryCalls, sessionClosed, variant, kwargs,
                   db, result, outcome, calls, disturbed, finishedOmitted,
                   earlierFinished>>
    /\ UNCHANGED valVars

\* except Exception as e: [db.rollback()]; return {"message": ...}
Except(p) ==
    /\ pc[p] = "except"
    /\ IF variant[p] = "add_delete_update"
         THEN /\ \/ /\ trace' = [trace EXCEPT
                                   ![p] = Append(@, Ev("rollback", "ok"))]
                    /\ pending' = [pending EXCEPT ![p] = Return(ErrorPayload)]
                 \/ /\ trace' = [trace EXCEPT
                                   ![p] = Append(@, Ev("rollback", "raise"))]
                    /\ pending' = [pending EXCEPT ![p] = Raise]
              /\ disturbed' = [q \in Callers |->
                                 disturbed[q]
                                   \/ q \in BetweenFuncAndCommit(p)]
         ELSE /\ pending' = [pending EXCEPT ![p] = Return(ErrorPayload)]
              /\ UNCHANGED <<trace, disturbed>>
    /\ pc' = [pc EXCEPT ![p] = "finally"]
    /\ UNCHANGED <<SessionLocal, factoryCalls, sessionClosed, variant, kwargs,
                   db, result, outcome, calls, finishedOmitted,
                   earlierFinished>>
    /\ UNCHANGED valVars

\* finally: db.close(), then the suspended return or raise takes place.
Close(p) ==
    /\ pc[p] = "finally"
    /\ \/ /\ trace' = [trace EXCEPT ![p] = Append(@, Ev("close", "ok"))]
          /\ sessionClosed' = [sessionClosed EXCEPT ![db[p]] = TRUE]
          /\ outcome' = [outcome EXCEPT ![p] = pending[p]]
          /\ finishedOmitted' = (finishedOmitted \/ kwargs[p] = Absent)
       \/ /\ trace' = [trace EXCEPT ![p] = Append(@, Ev("close", "raise"))]
          /\ outcome' = [outcome EXCEPT ![p] = Raise]
          /\ UNCHANGED <<sessionClosed, finishedOmitted>>
    /\ disturbed' = [q \in Callers |->
                       disturbed[q] \/ q \in BetweenFuncAndCommit(p)]
    /\ pc' = [pc EXCEPT ![p] = "done"]
    /\ calls' = [calls EXCEPT ![p] = @ + 1]
    /\ UNCHANGED <<SessionLocal, factoryCalls, variant, kwargs, db, result,
                   pending, earlierFinished>>
    /\ UNCHANGED valVars

\* The caller has the call's outcome and is free to call again.
Finish(p) ==
    /\ pc[p] = "done"
    /\ pc' = [pc EXCEPT ![p] = "idle"]
    /\ trace' = [trace EXCEPT ![p] = <<>>]
    /\ result' = [result EXCEPT ![p] = NoResult]
    /\ pending' = [pending EXCEPT ![p] = NoOutcome]
    /\ outcome' = [outcome EXCEPT ![p] = NoOutcome]
    /\ disturbed' = [disturbed EXCEPT ![p] = FALSE]
    /\ UNCHANGED <<SessionLocal, factoryCalls, sessionClosed, variant, kwargs,
                   db, calls, finishedOmitted, earlierFinished>>
    /\ UNCHANGED valVars

Next ==
    \E p \in Callers :
        \/ Call(p)
        \/ InvokeFunc(p)
        \/ Commit(p)
        \/ Except(p)
        \/ Close(p)
        \/ Finish(p)

(***************************************************************************)
(* DTypeValidator: values, types and the library calls the wrappers make.  *)
(***************************************************************************)
NoItems == <<>>

\* A value: its class, its text (for a string, its characters) and, for a
\* dict, its entries.
Val(t, lit) == [type |-> t, lit |-> lit, items |-> NoItems]

DictVal(m) == [type |-> "dict", lit |-> <<>>, items |-> m]

Int7 == Val("int", <<"7">>)
BoolTrue == Val("bool", <<"1">>)                 \* True
Str7 == Val("str", <<"7">>)                      \* "7"
Str1250 == Val("str", <<"1", "2", ".", "5", "0">>)   \* "12.50"
StrAbc == Val("str", <<"a", "b", "c">>)          \* "abc"
StrDots == Val("str", <<"1", ".", ".">>)         \* "1.."
UserStr7 == Val("UserStr", <<"7">>)              \* class UserStr(str)
Float7 == Val("float", <<"7", ".", "0">>)        \* 7.0
UserFloat7 == Val("UserFloat", <<"7", ".", "0">>)    \* class UserFloat(float)
Dec1250 == Val("Decimal", <<"1", "2", ".", "5", "0">>)
NoneV == Val("NoneType", <<>>)
List1 == Val("list", <<"1">>)                    \* [1]
EmptyDict == DictVal(NoItems)

\* The classes a value of class t is an instance of.
Mro(t) ==
    CASE t = "bool" -> {"bool", "int"}
      [] t = "UserStr" -> {"UserStr", "str"}
      [] t = "UserFloat" -> {"UserFloat", "float"}
      [] OTHER -> {t}

\* type(v) is cls
IsExactType(v, cls) == v.type = cls

\* isinstance(v, cls)
IsInstance(v, cls) == cls \in Mro(v.type)

Digits == {"0", "1", "2", "3", "4", "5", "6", "7", "8", "9"}

\* Decimal's reading of a text made of signs, digits, dots and letters: an
\* optional sign, then digits with at most one dot and at least one digit.
IsDecimalText(t) ==
    LET body == IF Len(t) > 0 /\ t[1] \in {"+", "-"} THEN Tail(t) ELSE t
    IN  /\ \A i \in 1..Len(body) : body[i] \in Digits \cup {"."}
        /\ Cardinality({i \in 1..Len(body) : body[i] = "."}) <= 1
        /\ \E i \in 1..Len(body) : body[i] \in Digits

\* Decimal(value): "ok" or the exception it raises.
DecimalCtor(v) ==
    CASE IsInstance(v, "int") -> "ok"
      [] IsInstance(v, "float") -> "ok"
      [] IsInstance(v, "Decimal") -> "ok"
      [] IsInstance(v, "str") ->
            IF IsDecimalText(v.lit) THEN "ok" ELSE "InvalidOperation"
      [] v.type \in {"list", "tuple"} -> "ValueError"  \* not a 3-tuple
      [] OTHER -> "TypeError"

ToDecimal(v) == Val("Decimal", v.lit)

\* except (ValueError, InvalidOperation)
CaughtByDecimalValidator(exc) == exc \in {"ValueError", "InvalidOperation"}

(***************************************************************************)
(* Mappings from names to values.                                          *)
(***************************************************************************)
Names == {"p", "q", "args", "kwargs"}

MappingsOver(S, V) == UNION {[D -> V] : D \in SUBSET S}

\* m.pop(k), the mapping left behind
Pop(m, k) == [n \in DOMAIN m \ {k} |-> m[n]]

\* m.update(d)
Update(m, d) ==
    [n \in DOMAIN m \cup DOMAIN d |-> IF n \in DOMAIN d THEN d[n] ELSE m[n]]

IsDictAt(m, k) == k \in DOMAIN m /\ IsInstance(m[k], "dict")

\* A flattening step that reads the aggregate without popping it.
FlattenKeepingEntry(m, k) ==
    IF IsDictAt(m, k) THEN Update(m, m[k].items) ELSE m

\* if isinstance(bound_args.get(k), dict): bound_args.update(bound_args.pop(k))
FlattenKey(m, k) ==
    IF IsDictAt(m, k) THEN Update(Pop(m, k), m[k].items) ELSE m

\* The two flattening steps of _extract_bound_args, 'kwargs' then 'args'.
Flatten(m) == FlattenKey(FlattenKey(m, "kwargs"), "args")

(***************************************************************************)
(* inspect.signature(func).bind_partial( *args, **kwargs)                  *)
(***************************************************************************)
NoVarKw == "none"

Signature(params, varkw) == [params |-> params, varkw |-> varkw]

SigPQ == Signature(<<"p", "q">>, NoVarKw)            \* def f(p, q)
SigPKw == Signature(<<"p">>, "kwargs")               \* def f(p, **kwargs)
SigArgsKwargs == Signature(<<"args", "kwargs">>, NoVarKw) \* def f(args, kwargs)

Positional(s, a) == {s.params[i] : i \in 1..Len(a)}

ParamSet(s) == {s.params[i] : i \in 1..Len(s.params)}

Extras(s, k) == DOMAIN k \ ParamSet(s)

BindFails(s, a, k) ==
    \/ Len(a) > Len(s.params)                  \* too many positional arguments
    \/ Positional(s, a) \cap DOMAIN k # {}     \* multiple values for argument
    \/ (s.varkw = NoVarKw /\ Extras(s, k) # {}) \* unexpected keyword argument

BindPartial(s, a, k) ==
    LET named == [n \in Positional(s, a) \cup (DOMAIN k \cap ParamSet(s)) |->
                    IF n \in DOMAIN k
                      THEN k[n]
                      ELSE a[CHOOSE i \in 1..Len(a) : s.params[i] = n]]
        extra == [n \in Extras(s, k) |-> k[n]]
    IN  IF Extras(s, k) = {}
          THEN named
          ELSE Update(named, [n \in {s.varkw} |-> DictVal(extra)])

(***************************************************************************)
(* The five validators.                                                    *)
(***************************************************************************)
Validators == {"validate_list", "validate_int", "validate_str",
               "validate_float", "validate_decimal"}

\* The class each validator tests with isinstance.
CheckedClass(v) ==
    CASE v = "validate_list" -> "list"
      [] v = "validate_int" -> "int"
      [] v = "validate_str" -> "str"
      [] v = "validate_float" -> "float"
      [] v = "validate_decimal" -> "Decimal"

\* The text of the one entry of "errors".
Reason(v, name) ==
    CASE v = "validate_list" -> <<name, " must be a list">>
      [] v = "validate_int" -> <<name, " must be an integer">>
      [] v = "validate_str" -> <<name, " must be a string">>
      [] v = "validate_float" -> <<name, " must be float">>
      [] v = "validate_decimal" -> <<"'", name, "' must be a valid decimal.">>

\* A validator that looks every name up with bound_args[param_name].
NeverSkipsAbsent(v) == FALSE

\* if param_name in bound_args: only validate_decimal has this test.
SkipsAbsent(v) == v = "validate_decimal"

FuncReturn(r) ==
    [how |-> "return", kind |-> "func result", text |-> r, errors |-> <<>>]

\* {"message": "Bad Request", "errors": [reason]}
BadRequest(reason) ==
    [how |-> "return", kind |-> "payload", text |-> "Bad Request",
     errors |-> <<reason>>]

Raised(exc) == [how |-> "raise", kind |-> exc, text |-> "", errors |-> <<>>]

NotEnded == [how |-> "none", kind |-> "", text |-> "", errors |-> <<>>]

(***************************************************************************)
(* The calls the model makes.                                              *)
(***************************************************************************)
ParamLists ==
    UNION {[1..n -> {"p", "q"}] : n \in 1..MaxParams}

QValues == {Int7, StrAbc, NoneV}

TypeValues == {Int7, BoolTrue, Str7, Str1250, StrAbc, StrDots, UserStr7,
               Float7, UserFloat7, Dec1250, NoneV, List1, EmptyDict}

\* Calls of f(p, q) and f(p, **kwargs) with p and q of every class.
TypeInputs ==
    {[sig |-> s, args |-> a, kwargs |-> k] :
        s \in {SigPQ, SigPKw},
        a \in {<<>>, <<Int7>>, <<StrAbc>>},
        k \in {m \in MappingsOver({"p", "q"}, TypeValues) :
                 "q" \in DOMAIN m => m["q"] \in QValues}}

\* Dicts one and two levels deep, for the aggregates 'args' and 'kwargs'.
InnerDicts == {EmptyDict, DictVal([n \in {"p"} |-> Str7])}

MidDicts ==
    {DictVal(m) : m \in
        {m \in MappingsOver({"p", "args", "kwargs"}, {Int7} \cup InnerDicts) :
            /\ "p" \in DOMAIN m => m["p"] = Int7
            /\ "args" \in DOMAIN m => m["args"] \in InnerDicts
            /\ "kwargs" \in DOMAIN m => m["kwargs"] \in InnerDicts}}

\* Calls that pass aggregates named 'args' and 'kwargs'.
NestedInputs ==
    {[sig |-> s, args |-> <<>>, kwargs |-> k] :
        s \in {SigPKw, SigArgsKwargs},
        k \in {m \in MappingsOver({"p", "args", "kwargs"},
                                  {Int7, Str7} \cup MidDicts) :
                 "p" \in DOMAIN m => m["p"] \in {Int7, Str7}}}

Inputs == TypeInputs \cup NestedInputs

InitValidator ==
    /\ validator \in Validators
    /\ param_names \in ParamLists
    /\ \E in \in Inputs :
          /\ sig = in.sig
          /\ call = [args |-> in.args, kwargs |-> in.kwargs]
    /\ vpc = "extract"
    /\ arguments = NoItems
    /\ extracted = NoItems
    /\ bound_args = NoItems
    /\ idx = 1
    /\ targetCalls = <<>>
    /\ targetResult = NoResult
    /\ vreturn = NotEnded

\* bound_args = DTypeValidator._extract_bound_args(func, *args, **kwargs)
ExtractBoundArgs ==
    /\ vpc = "extract"
    /\ IF BindFails(sig, call.args, call.kwargs)
         THEN /\ vreturn' = Raised("TypeError")
              /\ vpc' = "done"
              /\ UNCHANGED <<arguments, extracted, bound_args>>
         ELSE /\ arguments' = BindPartial(sig, call.args, call.kwargs)
              /\ extracted' = Flatten(arguments')
              /\ bound_args' = extracted'
              /\ vpc' = "check"
              /\ UNCHANGED vreturn
    /\ UNCHANGED <<validator, param_names, sig, call, idx, targetCalls,
                   targetResult>>
    /\ UNCHANGED sessVars

\* One turn of `for param_name in param_names` in validate_list, _int, _str
\* and _float.
CheckType ==
    /\ vpc = "check"
    /\ validator # "validate_decimal"
    /\ idx <= Len(param_names)
    /\ LET name == param_names[idx] IN
          IF name \notin DOMAIN bound_args
            THEN IF SkipsAbsent(validator)
                   THEN /\ idx' = idx + 1
                        /\ UNCHANGED <<vpc, vreturn>>
                   ELSE /\ vreturn' = Raised("KeyError")
                        /\ vpc' = "done"
                        /\ UNCHANGED idx
            ELSE IF IsInstance(bound_args[name], CheckedClass(validator))
                   THEN /\ idx' = idx + 1
                        /\ UNCHANGED <<vpc, vreturn>>
                   ELSE /\ vreturn' = BadRequest(Reason(validator, name))
                        /\ vpc' = "done"
                        /\ UNCHANGED idx
    /\ UNCHANGED <<validator, param_names, sig, call, arguments, extracted,
                   bound_args, targetCalls, targetResult>>
    /\ UNCHANGED sessVars

\* One turn of `for param_name in param_names` in validate_decimal.
CheckDecimal ==
    /\ vpc = "check"
    /\ validator = "validate_decimal"
    /\ idx <= Len(param_names)
    /\ LET name == param_names[idx] IN
          IF name \notin DOMAIN bound_args
            THEN IF SkipsAbsent(validator)
                   THEN /\ idx' = idx + 1
                        /\ UNCHANGED <<vpc, vreturn, bound_args>>
                   ELSE /\ vreturn' = Raised("KeyError")
                        /\ vpc' = "done"
                        /\ UNCHANGED <<idx, bound_args>>
            ELSE IF IsInstance(bound_args[name], CheckedClass(validator))
                   THEN /\ idx' = idx + 1
                        /\ UNCHANGED <<vpc, vreturn, bound_args>>
                   ELSE LET made == DecimalCtor(bound_args[name]) IN
                        IF made = "ok"
                          THEN /\ bound_args' =
                                    [bound_args EXCEPT
                                       ![name] = ToDecimal(bound_args[name])]
                               /\ idx' = idx + 1
                               /\ UNCHANGED <<vpc, vreturn>>
                          ELSE /\ vreturn' =
                                    IF CaughtByDecimalValidator(made)
                                      THEN BadRequest(Reason(validator, name))
                                      ELSE Raised(made)
                               /\ vpc' = "done"
                               /\ UNCHANGED <<idx, bound_args>>
    /\ UNCHANGED <<validator, param_names, sig, call, arguments, extracted,
                   targetCalls, targetResult>>
    /\ UNCHANGED sessVars

\* return func( *args, **kwargs)
InvokeTarget ==
    /\ vpc = "check"
    /\ idx > Len(param_names)
    /\ targetCalls' = Append(targetCalls, call)
    /\ \E r \in FuncResults :
          /\ targetResult' = r
          /\ vreturn' = FuncReturn(r)
    /\ vpc' = "done"
    /\ UNCHANGED <<validator, param_names, sig, call, arguments, extracted,
                   bound_args, idx>>
    /\ UNCHANGED sessVars

NextValidator ==
    \/ ExtractBoundArgs
    \/ CheckType
    \/ CheckDecimal
    \/ InvokeTarget

\* No validator wrapper is being called.
IdleValidator ==
    /\ validator = "validate_list"
    /\ param_names = <<"p">>
    /\ sig = SigPQ
    /\ call = [args |-> <<>>, kwargs |-> NoItems]
    /\ vpc = "idle"
    /\ arguments = NoItems
    /\ extracted = NoItems
    /\ bound_args = NoItems
    /\ idx = 1
    /\ targetCalls = <<>>
    /\ targetResult = NoResult
    /\ vreturn = NotEnded

Init == InitSessions /\ IdleValidator

Spec == Init /\ [][Next]_vars

ValidatorInit == InitSessions /\ InitValidator

ValidatorSpec == ValidatorInit /\ [][NextValidator]_vars

(***************************************************************************)
(* What a call did, read off its trace.                                    *)
(***************************************************************************)
Ops(p) == [i \in 1..Len(trace[p]) |-> trace[p][i].op]

Count(p, op) == Cardinality({i \in 1..Len(trace[p]) : trace[p][i].op = op})

Has(p, op, res) == \E i \in 1..Len(trace[p]) : trace[p][i] = Ev(op, res)

Before(p, op1, op2) ==
    \E i, j \in 1..Len(trace[p]) :
        i < j /\ trace[p][i].op = op1 /\ trace[p][j].op = op2

Mutating(p) == pc[p] = "done" /\ variant[p] = "add_delete_update"

Query(p) == pc[p] = "done" /\ variant[p] = "query"

\* C1: a call of the mutating wrapper whose function returns and whose commit
\* succeeds does func -> commit -> close, one each, no rollback, and returns
\* the function's result; a call whose function or commit raises does exactly
\* one rollback and then exactly one close and returns the fixed payload.
C1_CommitOrRollbackThenClose ==
    \A p \in Callers :
        Mutating(p) =>
            /\ (Has(p, "func", "ok") /\ Has(p, "commit", "ok")) =>
                  /\ Ops(p) = <<"func", "commit", "close">>
                  /\ outcome[p] = Return(result[p])
            /\ (Has(p, "func", "raise") \/ Has(p, "commit", "raise")) =>
                  /\ Count(p, "rollback") = 1
                  /\ Count(p, "close") = 1
                  /\ Before(p, "rollback", "close")
                  /\ outcome[p] = Return(ErrorPayload)

\* C2: a call that passes its own session as db invokes the function exactly
\* once, with that session, and returns the function's result when the
\* function returns normally.
C2_SuppliedSessionReachesFunc ==
    \A p \in Callers :
        (pc[p] = "done" /\ kwargs[p] \in SuppliedSessions) =>
            /\ Count(p, "func") = 1
            /\ db[p] = kwargs[p]
            /\ (Has(p, "func", "ok")
                  /\ (variant[p] = "query" \/ Has(p, "commit", "ok")))
                  => outcome[p] = Return(result[p])

\* C3: no call of either wrapper ends with an exception: it returns the
\* function's result or the fixed payload.
C3_NoExceptionEscapes ==
    \A p \in Callers :
        pc[p] = "done" =>
            \/ outcome[p] = Return(ErrorPayload)
            \/ /\ Has(p, "func", "ok")
               /\ outcome[p] = Return(result[p])

\* C4: a call of the read-only wrapper closes the session exactly once, after
\* the function call, never commits or rolls back, and returns the fixed
\* payload when the function raised and the function's result otherwise.
C4_QueryClosesOnce ==
    \A p \in Callers :
        (Query(p) /\ Count(p, "func") = 1) =>
            /\ Count(p, "close") = 1
            /\ Before(p, "func", "close")
            /\ Count(p, "commit") = 0
            /\ Count(p, "rollback") = 0
            /\ outcome[p] = IF Has(p, "func", "raise")
                              THEN Return(ErrorPayload)
                              ELSE Return(result[p])

\* C10: the factory is called once, at construction; every call that omits
\* db works on that one session, and when an earlier call that omitted db has
\* ended, on the session that call closed.  Nothing keeps two such calls
\* apart (C10_Interleaved).
C10_OneSharedSession ==
    /\ factoryCalls = 1
    /\ \A p \in Callers :
          (pc[p] # "idle" /\ kwargs[p] = Absent) =>
              /\ db[p] = SessionLocal
              /\ earlierFinished[p] => sessionClosed[db[p]]

\* Both callers omitted db; the first has run its function and not yet
\* committed, the second has meanwhile rolled back or closed the same
\* session, and the first began after an earlier call had closed it.
C10_Interleaved ==
    \E p, q \in Callers :
        /\ p # q
        /\ pc[p] = "commit" /\ kwargs[p] = Absent
        /\ disturbed[p]
        /\ earlierFinished[p] /\ sessionClosed[db[p]]
        /\ kwargs[q] = Absent /\ db[q] = db[p]
        /\ pc[q] \in {"finally", "done"}
        /\ Count(q, "rollback") + Count(q, "close") > 0

(***************************************************************************)
(* What a validator call was given and how it ended.                       *)
(***************************************************************************)
Done == vpc = "done"

Bound == ~BindFails(sig, call.args, call.kwargs)

ParamIdx == 1..Len(param_names)

Present(i) == param_names[i] \in DOMAIN extracted

Given(i) == extracted[param_names[i]]

AllPresent == \A i \in ParamIdx : Present(i)

Min(S) == CHOOSE i \in S : \A j \in S : i <= j

TargetInvokedOnce == targetCalls = <<call>>

TargetNotInvoked == targetCalls = <<>>

IsBadRequest(r) ==
    r.how = "return" /\ r.kind = "payload" /\ r.text = "Bad Request"

Names_(r, name) ==
    Len(r.errors) = 1 /\ \E j \in 1..Len(r.errors[1]) : r.errors[1][j] = name

\* The predicate each validator puts to a value.
PassesPredicate(v, x) ==
    IF v = "validate_decimal"
      THEN x.type = "Decimal" \/ DecimalCtor(x) = "ok"
      ELSE CheckedClass(v) \in Mro(x.type)

\* C5: with every configured name bound, the target is invoked iff every
\* named value passes the validator's predicate, then exactly once with the
\* caller's own arguments, and its result is returned; otherwise it is never
\* invoked, checking stops at the first failing name and the wrapper returns
\* Bad Request with one error entry naming that parameter.
C5_InvokedIffAllPass ==
    (Done /\ Bound /\ AllPresent) =>
        LET failing == {i \in ParamIdx : ~PassesPredicate(validator, Given(i))}
        IN  IF failing = {}
              THEN /\ TargetInvokedOnce
                   /\ vreturn = FuncReturn(targetResult)
              ELSE /\ TargetNotInvoked
                   /\ idx = Min(failing)
                   /\ IsBadRequest(vreturn)
                   /\ Names_(vreturn, param_names[Min(failing)])

\* C6: in validate_decimal every failure to convert a present, non-decimal
\* value - malformed text, None, a value of an incompatible class - ends in
\* the rejection payload "'<name>' must be a valid decimal.", the target not
\* invoked and no exception raised.
C6_ConversionFailureRejects ==
    (Done /\ Bound /\ validator = "validate_decimal") =>
        LET failing == {i \in ParamIdx :
                          /\ Present(i)
                          /\ Given(i).type # "Decimal"
                          /\ DecimalCtor(Given(i)) # "ok"}
        IN  failing # {} =>
              /\ vreturn = BadRequest(<<"'", param_names[Min(failing)],
                                        "' must be a valid decimal.">>)
              /\ TargetNotInvoked

PrimitiveClass(v) ==
    CASE v = "validate_int" -> "int"
      [] v = "validate_str" -> "str"
      [] v = "validate_float" -> "float"

\* The primitive class and the classes derived from it.
ClassAndSubclasses(v) ==
    CASE v = "validate_int" -> {"int", "bool"}
      [] v = "validate_str" -> {"str", "UserStr"}
      [] v = "validate_float" -> {"float", "UserFloat"}

StrictCall ==
    /\ Done /\ Bound /\ AllPresent
    /\ validator \in {"validate_int", "validate_str", "validate_float"}

\* C8 as claimed: validate_int, _str and _float accept a value iff its class
\* is exactly the primitive class; any other value, a value of a subclass
\* included, is rejected with Bad Request and the target is not invoked.
C8_ExactTypeOnly ==
    StrictCall =>
        IF \A i \in ParamIdx : Given(i).type = PrimitiveClass(validator)
          THEN TargetInvokedOnce
          ELSE TargetNotInvoked /\ IsBadRequest(vreturn)

\* C8 as amended: validate_int, _str and _float accept a value iff its class
\* is the primitive class or a subclass of it (True passes validate_int); a
\* value of any other class - a numeric string or a whole-number float given
\* to validate_int - is rejected with Bad Request and the target not invoked.
C8_InstanceOfPrimitive ==
    StrictCall =>
        IF \A i \in ParamIdx : Given(i).type \in ClassAndSubclasses(validator)
          THEN TargetInvokedOnce
          ELSE TargetNotInvoked /\ IsBadRequest(vreturn)

\* validate_int let True through to the target.
C8_BoolAccepted ==
    /\ StrictCall
    /\ validator = "validate_int"
    /\ \E i \in ParamIdx : Given(i) = BoolTrue
    /\ TargetInvokedOnce

Extracted == vpc \in {"check", "done"} /\ Bound

HasDict(m, k) == k \in DOMAIN m /\ m[k].type = "dict"

ItemsAt(m, k) == IF HasDict(m, k) THEN m[k].items ELSE NoItems

\* The two aggregates promote no name twice and no aggregate's own name.
NoCollision(m) ==
    /\ DOMAIN ItemsAt(m, "kwargs") \cap DOMAIN ItemsAt(m, "args") = {}
    /\ "args" \in DOMAIN ItemsAt(m, "kwargs") => "args" \notin DOMAIN m

\* Each mapping-valued aggregate of m removed and its entries promoted over
\* the rest; whatever the promoted entries hold is left as it is.
OneLevel(m) ==
    LET gone == {k \in {"kwargs", "args"} : HasDict(m, k)}
        rest == [n \in DOMAIN m \ gone |-> m[n]]
    IN  [n \in DOMAIN rest \cup DOMAIN ItemsAt(m, "kwargs")
                           \cup DOMAIN ItemsAt(m, "args") |->
           IF n \in DOMAIN ItemsAt(m, "args") THEN ItemsAt(m, "args")[n]
           ELSE IF n \in DOMAIN ItemsAt(m, "kwargs")
                  THEN ItemsAt(m, "kwargs")[n]
                  ELSE rest[n]]

\* C9 as claimed: _extract_bound_args flattens exactly one level - a
\* mapping-valued 'kwargs' or 'args' entry of the bound arguments is removed
\* and its entries promoted, overwriting; a non-mapping aggregate stays; a
\* mapping inside a promoted aggregate is not flattened further.
C9_ExactlyOneLevel ==
    (Extracted /\ NoCollision(arguments)) => extracted = OneLevel(arguments)

\* The 'args' entry the second step finds: the one promoted out of 'kwargs'
\* if there is one, else the top-level one.
ArgsAfterKwargs(m) ==
    IF "args" \in DOMAIN ItemsAt(m, "kwargs")
      THEN [args |-> ItemsAt(m, "kwargs")["args"]]
      ELSE [n \in DOMAIN m \cap {"args"} |-> m[n]]

\* C9 as amended: the 'kwargs' step runs first and the 'args' step runs on
\* its result.  Name by name: an entry of the mapping the 'args' step finds
\* wins; 'args' itself stays only when it is no mapping; then an entry of a
\* mapping-valued 'kwargs'; 'kwargs' itself stays only when it is no mapping;
\* then the top-level entry.  So a mapping promoted out of 'kwargs' under the
\* name 'args' is flattened too, and no other promoted mapping is.
C9_KwargsThenArgs ==
    Extracted =>
        LET m == arguments
            kw == ItemsAt(m, "kwargs")
            a1 == ArgsAfterKwargs(m)
            ar == ItemsAt(a1, "args")
            has(n) ==
                \/ n \in DOMAIN ar
                \/ n = "args" /\ "args" \in DOMAIN a1 /\ ~HasDict(a1, "args")
                \/ n # "args" /\ n \in DOMAIN kw
                \/ n \notin {"args", "kwargs"} /\ n \in DOMAIN m
                \/ n = "kwargs" /\ "kwargs" \in DOMAIN m
                      /\ ~HasDict(m, "kwargs")
            val(n) ==
                IF n \in DOMAIN ar THEN ar[n]
                ELSE IF n = "args" THEN a1["args"]
                ELSE IF n \in DOMAIN kw THEN kw[n]
                ELSE m[n]
        IN  /\ DOMAIN extracted = {n \in Names : has(n)}
            /\ \A n \in DOMAIN extracted : extracted[n] = val(n)

\* f(p, **kwargs) was called with args={'p': "7"} and validate_int('p'): the
\* mapping promoted out of 'kwargs' was flattened in turn, and the validator
\* rejected the nested p.
C9_NestedArgsFlattened ==
    /\ Done /\ Bound
    /\ validator = "validate_int"
    /\ param_names = <<"p">>
    /\ "p" \notin DOMAIN arguments
    /\ HasDict(arguments, "kwargs")
    /\ HasDict(arguments["kwargs"].items, "args")
    /\ "p" \in DOMAIN arguments["kwargs"].items["args"].items
    /\ extracted["p"] = Str7
    /\ vreturn = BadRequest(<<"p", " must be an integer">>)

====
